---- MODULE Spec2Model ----
(***************************************************************************)
(* Model of metadata-ingestion/src/datahub/ingestion/source/dbt.py: the    *)
(* dbt source that joins a manifest and a catalog, extracts DBTNode        *)
(* records and yields one MetadataWorkUnit per node.                       *)
(*                                                                         *)
(* Strings the code edits character by character (database, schema, name,  *)
(* target_platform, env, urns) are sequences of one-character strings.     *)
(* Strings the code only compares or looks up (dictionary keys, resource   *)
(* types, materializations, column types) are atomic strings.  A Python    *)
(* dict is a sequence of [k, v] records in insertion order; a JSON object  *)
(* with optional keys is a TLA+ record whose DOMAIN is the set of keys     *)
(* present.  Wall-clock timestamps of the audit stamps are left out.       *)
(***************************************************************************)
EXTENDS Integers, Sequences, FiniteSets, TLC

\* ------------------------------------------------------------------------
\* Bounds
MaxNodes == 2
MaxDeps == 2
MaxCols == 2
MaxPasses == 1

\* ------------------------------------------------------------------------
\* Python dict helpers (insertion-ordered mapping)
DQ == "\""
None == "None"

Keys(d) == {d[i].k : i \in 1..Len(d)}
Has(d, key) == key \in Keys(d)
Get(d, key) == d[CHOOSE i \in 1..Len(d) : d[i].k = key].v

\* {**a, **b}: a's keys keep their position and take b's value on collision,
\* b's new keys follow in b's order.
DictMerge(a, b) ==
    [i \in 1..Len(a) |-> [k |-> a[i].k,
                          v |-> IF Has(b, a[i].k) THEN Get(b, a[i].k) ELSE a[i].v]]
    \o SelectSeq(b, LAMBDA e : ~Has(a, e.k))

\* str.replace('"', "")
StripQuotes(s) == SelectSeq(s, LAMBDA c : c # DQ)

\* ------------------------------------------------------------------------
\* Identifier resolver
get_urn_raw(database, schema, name, target_platform, env) ==
    LET db_fqn == database \o <<".">> \o schema \o <<".">> \o name
    IN <<"urn:li:dataset:(urn:li:dataPlatform:">> \o target_platform
       \o <<",">> \o db_fqn \o <<",">> \o env \o <<")">>

get_urn_from_dbtNode(database, schema, name, target_platform, env) ==
    LET db_fqn == StripQuotes(database \o <<".">> \o schema \o <<".">> \o name)
    IN <<"urn:li:dataset:(urn:li:dataPlatform:">> \o target_platform
       \o <<",">> \o db_fqn \o <<",">> \o env \o <<")">>

\* AllowDenyPattern.allowed: the pattern is the set of resource types it lets
\* through.
allowed(node_type_pattern, resource_type) == resource_type \in node_type_pattern

\* ------------------------------------------------------------------------
\* Entity extractor
get_columns(catalog_node) ==
    LET raw_columns == catalog_node.columns
    IN [i \in 1..Len(raw_columns) |->
           [name |-> raw_columns[i].v.name,
            comment |-> raw_columns[i].v.comment,
            index |-> raw_columns[i].v.index,
            data_type |-> raw_columns[i].v.type]]

get_upstreams_skip_missing(upstreams, all_nodes, load_catalog, target_platform, environment) ==
    LET present == SelectSeq(upstreams, LAMBDA u : Has(all_nodes, u))
        urn(u) ==
            LET n == Get(all_nodes, u)
                name == IF "identifier" \in DOMAIN n /\ ~load_catalog
                        THEN n.identifier ELSE n.name
            IN get_urn_from_dbtNode(n.database, n.schema, name,
                                    target_platform, environment)
    IN [ok |-> TRUE, urns |-> [i \in 1..Len(present) |-> urn(present[i])]]

get_upstreams_name_only(upstreams, all_nodes, load_catalog, target_platform, environment) ==
    LET urn(u) ==
            LET n == Get(all_nodes, u)
            IN get_urn_from_dbtNode(n.database, n.schema, n.name,
                                    target_platform, environment)
    IN IF \A i \in 1..Len(upstreams) : Has(all_nodes, upstreams[i])
       THEN [ok |-> TRUE, urns |-> [i \in 1..Len(upstreams) |-> urn(upstreams[i])]]
       ELSE [ok |-> FALSE, urns |-> <<>>]

\* ok = FALSE is the KeyError of all_nodes[upstream].
get_upstreams(upstreams, all_nodes, load_catalog, target_platform, environment) ==
    LET urn(u) ==
            LET n == Get(all_nodes, u)
                name == IF "identifier" \in DOMAIN n /\ ~load_catalog
                        THEN n.identifier ELSE n.name
            IN get_urn_from_dbtNode(n.database, n.schema, name,
                                    target_platform, environment)
    IN IF \A i \in 1..Len(upstreams) : Has(all_nodes, upstreams[i])
       THEN [ok |-> TRUE, urns |-> [i \in 1..Len(upstreams) |-> urn(upstreams[i])]]
       ELSE [ok |-> FALSE, urns |-> <<>>]

\* lines 115-118: the logical name of a manifest entry
node_name(node, load_catalog) ==
    IF "identifier" \in DOMAIN node /\ load_catalog = FALSE
    THEN node.identifier
    ELSE node.name

node_upstream_urns_any_entry(node, nodes, load_catalog, target_platform, environment) ==
    IF "depends_on" \in DOMAIN node
    THEN get_upstreams(node.depends_on.nodes, nodes, load_catalog,
                       target_platform, environment)
    ELSE [ok |-> TRUE, urns |-> <<>>]

\* lines 120-135, upstream_urns: resolved for a model, empty for a source
node_upstream_urns(node, nodes, load_catalog, target_platform, environment) ==
    IF "materialized" \in DOMAIN node.config
    THEN get_upstreams(node.depends_on.nodes, nodes, load_catalog,
                       target_platform, environment)
    ELSE [ok |-> TRUE, urns |-> <<>>]

\* lines 120-135, materialization: from the config for a model, from the
\* catalog for a source (ok = FALSE is the KeyError of catalog[key])
node_materialization(key, node, catalog) ==
    IF "materialized" \in DOMAIN node.config
    THEN [ok |-> TRUE, value |-> node.config.materialized]
    ELSE IF Has(catalog, key)
         THEN [ok |-> TRUE, value |-> Get(catalog, key).metadata.type]
         ELSE [ok |-> FALSE, value |-> None]

node_columns_ignore_ephemeral(key, materialization, load_catalog, catalog) ==
    IF load_catalog
    THEN IF Has(catalog, key)
         THEN [ok |-> TRUE, columns |-> get_columns(Get(catalog, key))]
         ELSE [ok |-> FALSE, columns |-> <<>>]
    ELSE [ok |-> TRUE, columns |-> <<>>]

\* lines 137-143 (ok = FALSE is the KeyError of catalog[dbtNode.dbt_name])
node_columns(key, materialization, load_catalog, catalog) ==
    IF materialization # "ephemeral" /\ load_catalog
    THEN IF Has(catalog, key)
         THEN [ok |-> TRUE, columns |-> get_columns(Get(catalog, key))]
         ELSE [ok |-> FALSE, columns |-> <<>>]
    ELSE [ok |-> TRUE, columns |-> <<>>]

\* lines 105-153: the body of the loop for one entry that passed the filter
build_node(key, node, nodes, catalog, load_catalog, target_platform, environment) ==
    LET name == node_name(node, load_catalog)
        ups == node_upstream_urns(node, nodes, load_catalog, target_platform, environment)
        mat == node_materialization(key, node, catalog)
        cols == node_columns(key, mat.value, load_catalog, catalog)
    IN [ok |-> ups.ok /\ mat.ok /\ cols.ok,
        node |-> [dbt_name |-> key,
                  database |-> node.database,
                  schema |-> node.schema,
                  dbt_file_path |-> node.original_file_path,
                  node_type |-> node.resource_type,
                  name |-> name,
                  materialization |-> mat.value,
                  upstream_urns |-> ups.urns,
                  columns |-> IF mat.ok THEN cols.columns ELSE <<>>,
                  datahub_urn |-> get_urn_from_dbtNode(node.database, node.schema, name,
                                                       target_platform, environment)]]

extract_dbt_entities_no_filter(nodes, catalog, load_catalog, target_platform, environment, node_type_pattern) ==
    LET built == [i \in 1..Len(nodes) |->
                     build_node(nodes[i].k, nodes[i].v, nodes, catalog, load_catalog,
                                target_platform, environment)]
    IN IF \A i \in 1..Len(built) : built[i].ok
       THEN [ok |-> TRUE, entities |-> [i \in 1..Len(built) |-> built[i].node]]
       ELSE [ok |-> FALSE, entities |-> <<>>]

\* The first failing lookup raises out of the loop, so the call either
\* returns the node of every surviving entry, in manifest order, or fails.
extract_dbt_entities(nodes, catalog, load_catalog, target_platform, environment, node_type_pattern) ==
    LET kept == SelectSeq(nodes, LAMBDA e : allowed(node_type_pattern, e.v.resource_type))
        built == [i \in 1..Len(kept) |->
                     build_node(kept[i].k, kept[i].v, nodes, catalog, load_catalog,
                                target_platform, environment)]
    IN IF \A i \in 1..Len(built) : built[i].ok
       THEN [ok |-> TRUE, entities |-> [i \in 1..Len(built) |-> built[i].node]]
       ELSE [ok |-> FALSE, entities |-> <<>>]

\* The two files are records [nodes, sources] of dicts.
loadManifestAndCatalog(manifest, catalog, load_catalog, target_platform, environment, node_type_pattern) ==
    LET all_manifest_entities == DictMerge(manifest.nodes, manifest.sources)
        all_catalog_entities == DictMerge(catalog.nodes, catalog.sources)
    IN extract_dbt_entities(all_manifest_entities, all_catalog_entities, load_catalog,
                            target_platform, environment, node_type_pattern)

get_custom_properties(node) ==
    [dbt_node_type |-> node.node_type,
     materialization |-> node.materialization,
     dbt_file_path |-> node.dbt_file_path]

\* ------------------------------------------------------------------------
\* Lineage builder
get_upstream_lineage(upstream_urns) ==
    [aspect |-> "UpstreamLineage",
     upstreams |-> [i \in 1..Len(upstream_urns) |->
                       [dataset |-> upstream_urns[i],
                        actor |-> "urn:li:corpuser:dbt_executor",
                        type |-> "TRANSFORMED"]]]

\* ------------------------------------------------------------------------
\* Type mapper
BaseTypesMap ==
    ("boolean" :> "BooleanTypeClass") @@ ("date" :> "DateTypeClass")
    @@ ("time" :> "TimeTypeClass") @@ ("numeric" :> "NumberTypeClass")
    @@ ("text" :> "StringTypeClass")
    @@ ("timestamp with time zone" :> "DateTypeClass")
    @@ ("timestamp without time zone" :> "DateTypeClass")
    @@ ("integer" :> "NumberTypeClass") @@ ("float8" :> "NumberTypeClass")

\* The two vendor tables live in dbt_types.py; a few of their keywords.
POSTGRES_TYPES_MAP ==
    ("varchar" :> "StringTypeClass") @@ ("bytea" :> "BytesTypeClass")
    @@ ("text" :> "StringTypeClass")

SNOWFLAKE_TYPES_MAP ==
    ("NUMBER" :> "NumberTypeClass") @@ ("VARIANT" :> "RecordTypeClass")

\* later tables win on a key collision
field_type_mapping == SNOWFLAKE_TYPES_MAP @@ POSTGRES_TYPES_MAP @@ BaseTypesMap

\* dict.get: None when the key is missing
field_type_mapping_get(column_type) ==
    IF column_type \in DOMAIN field_type_mapping
    THEN field_type_mapping[column_type]
    ELSE None

\* A parameterised type is reduced to its base keyword, which is looked up
\* in the Postgres table; anything else is None.
ModifiedTypeBase ==
    ("varchar(255)" :> "varchar") @@ ("numeric(10,2)" :> "numeric")

resolve_postgres_modified_type(type_string) ==
    IF type_string \in DOMAIN ModifiedTypeBase
    THEN LET base == ModifiedTypeBase[type_string]
         IN IF base \in DOMAIN POSTGRES_TYPES_MAP
            THEN POSTGRES_TYPES_MAP[base]
            ELSE field_type_mapping_get(base)
    ELSE None

\* ------------------------------------------------------------------------
\* Run report (SourceReport)
EmptyReport == [workunit_ids |-> <<>>, warnings |-> <<>>]

report_workunit(report, wu) ==
    [report EXCEPT !.workunit_ids = Append(@, wu.id)]

report_warning(report, key, reason) ==
    [report EXCEPT !.warnings = Append(@, [key |-> key, reason |-> reason])]

get_column_type_silent(report, dataset_name, column_type) ==
    LET t1 == field_type_mapping_get(column_type)
        t2 == IF t1 = None THEN resolve_postgres_modified_type(column_type) ELSE t1
    IN IF t2 = None
       THEN [type |-> "NullTypeClass", report |-> report]
       ELSE [type |-> t2, report |-> report]

get_column_type(report, dataset_name, column_type) ==
    LET t1 == field_type_mapping_get(column_type)
        t2 == IF t1 = None THEN resolve_postgres_modified_type(column_type) ELSE t1
    IN IF t2 = None
       THEN [type |-> "NullTypeClass",
             report |-> report_warning(report, dataset_name,
                            <<"unable to map type ", column_type, " to metadata schema">>)]
       ELSE [type |-> t2, report |-> report]

\* ------------------------------------------------------------------------
\* Schema builder
RECURSIVE schema_fields(_, _, _, _)
schema_fields(report, node, i, canonical_schema) ==
    IF i > Len(node.columns)
    THEN [fields |-> canonical_schema, report |-> report]
    ELSE LET column == node.columns[i]
             t == get_column_type(report, node.dbt_name, column.data_type)
             field == [fieldPath |-> column.name,
                       nativeDataType |-> column.data_type,
                       type |-> t.type,
                       description |-> column.comment,
                       nullable |-> FALSE,
                       recursive |-> FALSE]
         IN schema_fields(t.report, node, i + 1, Append(canonical_schema, field))

get_schema_metadata(report, node, platform) ==
    LET r == schema_fields(report, node, 1, <<>>)
    IN [schema |-> [aspect |-> "SchemaMetadata",
                    schemaName |-> node.dbt_name,
                    platform |-> <<"urn:li:dataPlatform:", platform>>,
                    version |-> 0,
                    fields |-> r.fields],
        report |-> r.report]

\* ------------------------------------------------------------------------
\* Source driver
DbtPlatform == "dbt"

workunit_unaccounted(report, node, load_schemas, platform) ==
    LET dbt_properties == [aspect |-> "DatasetProperties",
                           description |-> node.dbt_name,
                           customProperties |-> get_custom_properties(node),
                           tags |-> <<>>]
        upstreams == get_upstream_lineage(node.upstream_urns)
        sm == IF load_schemas
              THEN get_schema_metadata(report, node, platform)
              ELSE [schema |-> None, report |-> report]
        aspects == <<dbt_properties, upstreams>>
                   \o (IF load_schemas THEN <<sm.schema>> ELSE <<>>)
        wu == [id |-> node.datahub_urn,
               mce |-> [urn |-> node.datahub_urn, aspects |-> aspects]]
    IN [wu |-> wu, report |-> sm.report]

\* lines 351-374: one iteration of the loop, up to the yield
workunit(report, node, load_schemas, platform) ==
    LET dbt_properties == [aspect |-> "DatasetProperties",
                           description |-> node.dbt_name,
                           customProperties |-> get_custom_properties(node),
                           tags |-> <<>>]
        upstreams == get_upstream_lineage(node.upstream_urns)
        sm == IF load_schemas
              THEN get_schema_metadata(report, node, platform)
              ELSE [schema |-> None, report |-> report]
        aspects == <<dbt_properties, upstreams>>
                   \o (IF load_schemas THEN <<sm.schema>> ELSE <<>>)
        wu == [id |-> node.datahub_urn,
               mce |-> [urn |-> node.datahub_urn, aspects |-> aspects]]
    IN [wu |-> wu, report |-> report_workunit(sm.report, wu)]

close_resets_report(self) == [self EXCEPT !.report = EmptyReport]

\* def close(self): pass
close(self) == self

VARIABLES
    config,         \* DBTConfig: load_schemas, target_platform, env, node_type_pattern
    manifest_file,  \* the JSON document at config.manifest_path
    catalog_file,   \* the JSON document at config.catalog_path
    report,         \* self.report
    gen,            \* the generator get_workunits returned: pc, nodes, next index i
    delivered,      \* the work units the consumer has received, all passes
    passStart,      \* Len(delivered) when the current generator was created
    passes,         \* number of get_workunits calls
    closed          \* close has been called

vars == <<config, manifest_file, catalog_file, report, gen, delivered,
          passStart, passes, closed>>

\* ------------------------------------------------------------------------
\* Inputs
KeyNames == <<"k1", "k2", "k3", "k4", "k5">>
MissingKey == "k0"
ManifestKeys == {KeyNames[i] : i \in 1..MaxNodes}

SeqsUpTo(S, n) == UNION {[1..m -> S] : m \in 0..n}
InjectiveSeqsUpTo(S, n) ==
    {q \in SeqsUpTo(S, n) : \A i, j \in 1..Len(q) : i # j => q[i] # q[j]}

DepLists == InjectiveSeqsUpTo(ManifestKeys \cup {MissingKey}, MaxDeps)

SourcePlain ==
    [resource_type |-> "source", database |-> <<"d">>, schema |-> <<"s">>,
     original_file_path |-> "models/sources.yml", name |-> <<"a">>,
     config |-> [enabled |-> TRUE]]

SourceQuoted(deps) ==
    [resource_type |-> "source", database |-> <<DQ, "d", DQ>>, schema |-> <<"s">>,
     original_file_path |-> "models/sources.yml", name |-> <<"a">>,
     identifier |-> <<"i">>, config |-> [enabled |-> TRUE],
     depends_on |-> [nodes |-> deps]]

ModelTable(deps) ==
    [resource_type |-> "model", database |-> <<"d">>, schema |-> <<"s">>,
     original_file_path |-> "models/b.sql", name |-> <<DQ, "b", DQ>>,
     config |-> [enabled |-> TRUE, materialized |-> "table"],
     depends_on |-> [nodes |-> deps]]

ModelEphemeral ==
    [resource_type |-> "model", database |-> <<"d">>, schema |-> <<"s">>,
     original_file_path |-> "models/c.sql", name |-> <<"c">>,
     config |-> [enabled |-> TRUE, materialized |-> "ephemeral"],
     depends_on |-> [nodes |-> <<>>]]

Shapes(deps) ==
    {SourcePlain, SourceQuoted(deps), ModelTable(deps), ModelEphemeral}

\* The manifest whose i-th entry has key KeyNames[i]; dbt writes sources
\* under "sources" and everything else under "nodes".
ManifestOf(entries) ==
    LET all == [i \in 1..Len(entries) |-> [k |-> KeyNames[i], v |-> entries[i]]]
    IN [nodes |-> SelectSeq(all, LAMBDA e : e.v.resource_type # "source"),
        sources |-> SelectSeq(all, LAMBDA e : e.v.resource_type = "source")]

Manifests(deps) == {ManifestOf(q) : q \in SeqsUpTo(Shapes(deps), MaxNodes)}

ColPool ==
    {[name |-> "id", comment |-> "", type |-> "integer", index |-> 1],
     [name |-> "label", comment |-> "a label", type |-> "varchar(255)", index |-> 2],
     [name |-> "geo", comment |-> "", type |-> "totally_unknown_type", index |-> 3],
     [name |-> "sketch", comment |-> "", type |-> "hyperloglog", index |-> 4]}

ColumnDicts ==
    {[i \in 1..Len(q) |-> [k |-> q[i].name, v |-> q[i]]] :
        q \in InjectiveSeqsUpTo(ColPool, MaxCols)}

DefaultColumns ==
    <<[k |-> "id", v |-> [name |-> "id", comment |-> "", type |-> "integer", index |-> 1]],
      [k |-> "geo", v |-> [name |-> "geo", comment |-> "",
                           type |-> "totally_unknown_type", index |-> 2]]>>

\* A catalog that gives every key of keys the same entry, split between the
\* two sections as the manifest is.
CatalogOf(manifest, keys, type, columns) ==
    LET entry(e) == [k |-> e.k, v |-> [metadata |-> [type |-> type], columns |-> columns]]
        part(d) == LET kept == SelectSeq(d, LAMBDA e : e.k \in keys)
                   IN [i \in 1..Len(kept) |-> entry(kept[i])]
    IN [nodes |-> part(manifest.nodes), sources |-> part(manifest.sources)]

AllTypes == {"model", "source"}
PlainPlatform == <<"p", "g">>
PlainEnv == <<"P", "R">>

Fresh ==
    /\ report = EmptyReport
    /\ gen = [pc |-> "none", nodes |-> <<>>, i |-> 1]
    /\ delivered = <<>>
    /\ passStart = 0
    /\ passes = 0
    /\ closed = FALSE

\* Manifests and dependency lists vary; the catalog covers every key.
InitLineage ==
    \E deps \in DepLists, ls \in BOOLEAN, pat \in {AllTypes, {"model"}} :
      \E m \in Manifests(deps) :
        /\ manifest_file = m
        /\ catalog_file = CatalogOf(m, ManifestKeys, "table", DefaultColumns)
        /\ config = [load_schemas |-> ls, target_platform |-> PlainPlatform,
                     env |-> PlainEnv, node_type_pattern |-> pat]

\* One-entry manifests; the catalog entry varies.
InitSchema ==
    \E ls \in BOOLEAN, present \in BOOLEAN, type \in {"table", "ephemeral"},
       columns \in ColumnDicts, shape \in Shapes(<<>>) :
        LET m == ManifestOf(<<shape>>)
        IN /\ manifest_file = m
           /\ catalog_file = CatalogOf(m, IF present THEN ManifestKeys ELSE {}, type, columns)
           /\ config = [load_schemas |-> ls, target_platform |-> PlainPlatform,
                        env |-> PlainEnv, node_type_pattern |-> AllTypes]

\* Platform and environment tags vary, with and without quotes.
InitIdentifier ==
    \E ls \in BOOLEAN, tp \in {PlainPlatform, <<"p", DQ>>}, env \in {PlainEnv, <<DQ, "E", DQ>>},
       m \in Manifests(<<KeyNames[1]>>) :
        /\ manifest_file = m
        /\ catalog_file = CatalogOf(m, ManifestKeys, "view", DefaultColumns)
        /\ config = [load_schemas |-> ls, target_platform |-> tp,
                     env |-> env, node_type_pattern |-> AllTypes]

Init == Fresh /\ (InitLineage \/ InitSchema \/ InitIdentifier)

\* ------------------------------------------------------------------------
\* Operations

\* self.get_workunits(): calling a generator function runs none of its body.
GetWorkunits ==
    /\ passes < MaxPasses
    /\ passes' = passes + 1
    /\ gen' = [pc |-> "created", nodes |-> <<>>, i |-> 1]
    /\ passStart' = Len(delivered)
    /\ UNCHANGED <<config, manifest_file, catalog_file, report, delivered, closed>>

\* next() on the generator: from its start or from the last yield up to the
\* next yield, the end of the loop, or the exception of a failed lookup.
NextWorkunit ==
    /\ gen.pc \in {"created", "suspended"}
    /\ LET loaded == IF gen.pc = "created"
                     THEN loadManifestAndCatalog(manifest_file, catalog_file,
                              config.load_schemas, config.target_platform,
                              config.env, config.node_type_pattern)
                     ELSE [ok |-> TRUE, entities |-> gen.nodes]
       IN IF ~loaded.ok
          THEN /\ gen' = [pc |-> "failed", nodes |-> <<>>, i |-> 1]
               /\ UNCHANGED <<report, delivered>>
          ELSE IF gen.i > Len(loaded.entities)
          THEN /\ gen' = [pc |-> "exhausted", nodes |-> loaded.entities, i |-> gen.i]
               /\ UNCHANGED <<report, delivered>>
          ELSE LET r == workunit(report, loaded.entities[gen.i],
                                 config.load_schemas, DbtPlatform)
               IN /\ report' = r.report
                  /\ delivered' = Append(delivered, r.wu)
                  /\ gen' = [pc |-> "suspended", nodes |-> loaded.entities,
                             i |-> gen.i + 1]
    /\ UNCHANGED <<config, manifest_file, catalog_file, passStart, passes, closed>>

\* self.close()
Close ==
    /\ closed' = TRUE
    /\ LET self == close([config |-> config, platform |-> DbtPlatform, report |-> report])
       IN /\ config' = self.config
          /\ report' = self.report
    /\ UNCHANGED <<manifest_file, catalog_file, gen, delivered, passStart, passes>>

Next == GetWorkunits \/ NextWorkunit \/ Close

Spec == Init /\ [][Next]_vars

\* ------------------------------------------------------------------------
\* Vocabulary of the properties
AllEntries == DictMerge(manifest_file.nodes, manifest_file.sources)
AllCatalog == DictMerge(catalog_file.nodes, catalog_file.sources)
Passing == SelectSeq(AllEntries, LAMBDA e : e.v.resource_type \in config.node_type_pattern)
IsModel(entry) == "materialized" \in DOMAIN entry.config
LogicalName(entry) ==
    IF "identifier" \in DOMAIN entry /\ ~config.load_schemas
    THEN entry.identifier ELSE entry.name
Fqn(entry) ==
    StripQuotes(entry.database) \o <<".">> \o StripQuotes(entry.schema)
    \o <<".">> \o StripQuotes(LogicalName(entry))
ResolvedId(entry) ==
    <<"urn:li:dataset:(urn:li:dataPlatform:">> \o config.target_platform
    \o <<",">> \o Fqn(entry) \o <<",">> \o config.env \o <<")">>
Quotes(s) == Len(SelectSeq(s, LAMBDA c : c = DQ))
PassRecords == SubSeq(delivered, passStart + 1, Len(delivered))
Extracted == gen.pc \in {"suspended", "exhausted"}
EntryOf(wu) == Get(AllEntries, wu.mce.aspects[1].description)
Lineage(wu) == wu.mce.aspects[2].upstreams
MissingDep(entry) ==
    /\ IsModel(entry)
    /\ \E j \in 1..Len(entry.depends_on.nodes) :
          ~Has(AllEntries, entry.depends_on.nodes[j])
JoinError == \E i \in 1..Len(Passing) : MissingDep(Passing[i].v)

\* C1: when an entry that passes the filter and has a materialized key
\* names a dependency absent from the combined manifest, every pass fails at
\* its first pull: no record is delivered and no workunit is accounted.
C1_JoinErrorAbortsPass ==
    JoinError =>
        /\ gen.pc \in {"none", "created", "failed"}
        /\ delivered = <<>>
        /\ report.workunit_ids = <<>>

C1_Witness ==
    /\ gen.pc = "failed"
    /\ Len(Passing) = 2
    /\ ~MissingDep(Passing[1].v)
    /\ MissingDep(Passing[2].v)
    /\ \A i \in 1..Len(Passing) : Has(AllCatalog, Passing[i].k)

\* C2: an extracted model whose dependencies are all in the manifest has one
\* upstream identifier per dependency, in order, each the resolved
\* identifier of that dependency (and the id of its record when it is
\* extracted too); the lineage of the delivered record lists the same.
C2_UpstreamsResolveDependencies ==
    Extracted =>
      /\ \A x \in 1..Len(gen.nodes) :
          LET n == gen.nodes[x]
              e == Get(AllEntries, n.dbt_name)
          IN IsModel(e) =>
               /\ Len(n.upstream_urns) = Len(e.depends_on.nodes)
               /\ \A i \in 1..Len(e.depends_on.nodes) :
                    /\ n.upstream_urns[i] = ResolvedId(Get(AllEntries, e.depends_on.nodes[i]))
                    /\ \A y \in 1..Len(gen.nodes) :
                         gen.nodes[y].dbt_name = e.depends_on.nodes[i]
                           => gen.nodes[y].datahub_urn = n.upstream_urns[i]
      /\ \A x \in 1..Len(PassRecords) :
          LET e == EntryOf(PassRecords[x])
          IN IsModel(e) =>
               /\ Len(Lineage(PassRecords[x])) = Len(e.depends_on.nodes)
               /\ \A i \in 1..Len(e.depends_on.nodes) :
                    Lineage(PassRecords[x])[i].dataset
                        = ResolvedId(Get(AllEntries, e.depends_on.nodes[i]))

C2_Witness ==
    /\ gen.pc = "exhausted"
    /\ ~config.load_schemas
    /\ \E x \in 1..Len(PassRecords) :
         LET e == EntryOf(PassRecords[x])
         IN /\ IsModel(e)
            /\ Len(Lineage(PassRecords[x])) = 2
            /\ Lineage(PassRecords[x])[1].dataset # Lineage(PassRecords[x])[2].dataset
            /\ \E i \in 1..2 :
                 "identifier" \in DOMAIN Get(AllEntries, e.depends_on.nodes[i])

\* C3 as stated: a completed pass has one record per entry passing the
\* filter and no two of its records carry the same id.
C3_RecordsUniquelyKeyed ==
    gen.pc = "exhausted" =>
        /\ Len(PassRecords) = Len(Passing)
        /\ \A i, j \in 1..Len(PassRecords) :
             i # j => PassRecords[i].id # PassRecords[j].id

\* C3 amended: a completed pass has one record per entry passing the filter,
\* in manifest order, the i-th keyed by the resolved identifier of the i-th
\* such entry; two records share an id exactly when their entries have the
\* same quote-stripped database.schema.logicalName.
C3_OneRecordPerPassingEntry ==
    gen.pc = "exhausted" =>
        /\ Len(PassRecords) = Len(Passing)
        /\ \A i \in 1..Len(PassRecords) :
             /\ PassRecords[i].id = ResolvedId(Passing[i].v)
             /\ PassRecords[i].mce.aspects[1].description = Passing[i].k
        /\ \A i, j \in 1..Len(PassRecords) :
             (PassRecords[i].id = PassRecords[j].id)
                <=> (Fqn(Passing[i].v) = Fqn(Passing[j].v))

C3_Witness ==
    /\ gen.pc = "exhausted"
    /\ Len(PassRecords) = 2
    /\ PassRecords[1].id # PassRecords[2].id
    /\ Len(AllEntries) = 2

\* C4 as stated: no identifier the resolver returns contains a double quote.
C4_NoQuoteInIdentifier ==
    \A x \in 1..Len(delivered) :
        /\ Quotes(delivered[x].id) = 0
        /\ \A i \in 1..Len(Lineage(delivered[x])) :
             Quotes(Lineage(delivered[x])[i].dataset) = 0

\* C4 amended: the resolver removes every double quote of database, schema
\* and name and passes target_platform and env through unchanged, so the
\* identifier holds exactly the quotes of those two components.
C4_QuotesOnlyFromPlatformAndEnv ==
    \A x \in 1..Len(delivered) :
        /\ Quotes(delivered[x].id) = Quotes(config.target_platform) + Quotes(config.env)
        /\ delivered[x].id = ResolvedId(EntryOf(delivered[x]))
        /\ \A i \in 1..Len(Lineage(delivered[x])) :
             Quotes(Lineage(delivered[x])[i].dataset)
                = Quotes(config.target_platform) + Quotes(config.env)

C4_Witness ==
    \E x \in 1..Len(delivered) :
        /\ Quotes(EntryOf(delivered[x]).database) > 0
        /\ Quotes(config.target_platform) = 0
        /\ Quotes(config.env) = 0
        /\ Quotes(delivered[x].id) = 0

\* C5: an extracted node whose entry has no materialized key (a SOURCE) has
\* no upstream identifier, and the lineage of its record has no upstream.
C5_SourceHasNoUpstreams ==
    /\ Extracted =>
         \A x \in 1..Len(gen.nodes) :
            ~IsModel(Get(AllEntries, gen.nodes[x].dbt_name))
               => gen.nodes[x].upstream_urns = <<>>
    /\ \A x \in 1..Len(delivered) :
         ~IsModel(EntryOf(delivered[x])) => Lineage(delivered[x]) = <<>>

C5_Witness ==
    \E x \in 1..Len(delivered) :
        LET e == EntryOf(delivered[x])
        IN /\ ~IsModel(e)
           /\ "depends_on" \in DOMAIN e
           /\ Len(e.depends_on.nodes) > 0
           /\ Lineage(delivered[x]) = <<>>

\* C6: an extracted node has columns only if load_schemas is true and its
\* materialization is not "ephemeral"; the schema record of an ephemeral
\* node has no field.
C6_ColumnsOnlyWhenLoadedAndNotEphemeral ==
    /\ Extracted =>
         \A x \in 1..Len(gen.nodes) :
            gen.nodes[x].columns # <<>>
               => config.load_schemas /\ gen.nodes[x].materialization # "ephemeral"
    /\ \A x \in 1..Len(delivered) :
         LET a == delivered[x].mce.aspects
         IN /\ Len(a) = (IF config.load_schemas THEN 3 ELSE 2)
            /\ (Len(a) = 3 /\ a[1].customProperties.materialization = "ephemeral")
                  => a[3].fields = <<>>

C6_Witness ==
    \E x \in 1..Len(delivered) :
        LET a == delivered[x].mce.aspects
        IN /\ config.load_schemas
           /\ a[1].customProperties.materialization = "ephemeral"
           /\ Has(AllCatalog, a[1].description)
           /\ Get(AllCatalog, a[1].description).columns # <<>>
           /\ a[3].fields = <<>>

Unmapped(column_type) ==
    /\ column_type \notin DOMAIN field_type_mapping
    /\ resolve_postgres_modified_type(column_type) = None
Schema(wu) == wu.mce.aspects[3]
WarningFor(key, column_type) ==
    [key |-> key,
     reason |-> <<"unable to map type ", column_type, " to metadata schema">>]
FieldWarnings(schema) ==
    LET bad == SelectSeq(schema.fields, LAMBDA f : Unmapped(f.nativeDataType))
    IN [i \in 1..Len(bad) |-> WarningFor(schema.schemaName, bad[i].nativeDataType)]
RECURSIVE ExpectedWarnings(_)
ExpectedWarnings(records) ==
    IF records = <<>>
    THEN <<>>
    ELSE ExpectedWarnings(SubSeq(records, 1, Len(records) - 1))
         \o (IF Len(records[Len(records)].mce.aspects) = 3
             THEN FieldWarnings(Schema(records[Len(records)]))
             ELSE <<>>)

\* C7: every column gets a canonical type; a type found in the table or
\* resolved as a modified type adds no warning, any other type maps to the
\* null type and adds exactly one warning with the node's key and the type
\* string, and the remaining columns and nodes are still processed.
C7_UnknownTypeWarnsOnce ==
    /\ report.warnings = ExpectedWarnings(delivered)
    /\ \A x \in 1..Len(delivered) :
         Len(delivered[x].mce.aspects) = 3 =>
            LET sm == Schema(delivered[x])
                e == EntryOf(delivered[x])
                cat == Get(AllCatalog, sm.schemaName)
            IN /\ sm.fields # <<>> => Len(sm.fields) = Len(cat.columns)
               /\ \A i \in 1..Len(sm.fields) :
                    LET t == sm.fields[i].nativeDataType
                    IN /\ sm.fields[i].type # None
                       /\ Unmapped(t) <=> sm.fields[i].type = "NullTypeClass"
                       /\ t \in DOMAIN field_type_mapping
                            => sm.fields[i].type = field_type_mapping[t]

C7_Witness ==
    /\ gen.pc = "exhausted"
    /\ passes = 1
    /\ Len(report.warnings) = 1
    /\ \E x \in 1..Len(delivered) :
         /\ Len(delivered[x].mce.aspects) = 3
         /\ Len(Schema(delivered[x]).fields) = 2
         /\ Schema(delivered[x]).fields[1].type = "NullTypeClass"
         /\ Schema(delivered[x]).fields[2].nativeDataType = "varchar(255)"
         /\ Schema(delivered[x]).fields[2].type = "StringTypeClass"
         /\ report.warnings[1] = WarningFor(delivered[x].mce.aspects[1].description,
                                            "totally_unknown_type")

\* C8 as stated: once close has been called nothing moves the driver and no
\* further record is emitted, and a close call leaves report and
\* configuration unchanged.
C8_ClosedIsTerminal ==
    [][/\ closed => (delivered' = delivered /\ gen' = gen)
       /\ (gen' = gen /\ passes' = passes) => (report' = report /\ config' = config)]_vars

\* C8 amended: the driver is READY until get_workunits is first called and
\* never READY again; a close call (the only step that leaves the generator
\* and the pass count alone), in any state and however often, changes
\* neither report nor configuration nor what has been delivered.  The code
\* keeps no closed state.
C8_CloseIsNoOp ==
    [][/\ (gen' = gen /\ passes' = passes)
            => UNCHANGED <<config, manifest_file, catalog_file, report,
                           delivered, passStart>>
       /\ gen.pc # "none" => gen'.pc # "none"
       /\ gen.pc = "none" => delivered = <<>>]_vars

C8_Witness ==
    /\ closed
    /\ gen.pc = "suspended"
    /\ report.workunit_ids # <<>>
    /\ report.warnings # <<>>

\* C9: the columns of an extracted node are in ascending order of their
\* catalog index.
C9_ColumnsOrderedByIndex ==
    Extracted =>
        \A x \in 1..Len(gen.nodes) :
            \A i, j \in 1..Len(gen.nodes[x].columns) :
                i < j => gen.nodes[x].columns[i].index < gen.nodes[x].columns[j].index

\* C10: at every record boundary the report holds exactly the ids of the
\* records delivered so far, in delivery order.
C10_ReportAccountsDelivered ==
    /\ Len(report.workunit_ids) = Len(delivered)
    /\ \A i \in 1..Len(delivered) : report.workunit_ids[i] = delivered[i].id

C10_Witness ==
    /\ passes = 1
    /\ gen.pc = "suspended"
    /\ Len(gen.nodes) = 2
    /\ Len(delivered) = 1
    /\ report.workunit_ids = <<gen.nodes[1].datahub_urn>>

====
